---- MODULE Spec2Model ----
(***************************************************************************)
(* Model of src/Algo/BinPacking/bin_packing_symmetry.py: a bin-packing     *)
(* instance file is parsed, an integer linear program is built over the    *)
(* boolean variables x[i,j] and y[j], the external solver is invoked on    *)
(* it, and the result is printed; main does this twice, first without and  *)
(* then with the lexicographic symmetry-breaking constraints.              *)
(*                                                                         *)
(* The solver is an external collaborator.  Its contract is modelled by    *)
(* the semantics of the constraints it is given: optimize() ends with the  *)
(* status "optimal" and one assignment of least objective among those that *)
(* satisfy every constraint of the model, or with "infeasible" when no     *)
(* assignment satisfies them.  Which optimal assignment, how many nodes    *)
(* and how much time are the solver's choice.                              *)
(***************************************************************************)
EXTENDS Integers, Sequences, FiniteSets, TLC

\* ---- bounds of the explored inputs ----
MaxItems == 2     \* number_of_objects ranges over 0..MaxItems
MaxCap == 2       \* capacity ranges over 1..MaxCap
MaxSize == 3      \* each size ranges over 0..MaxSize (so oversized items occur)
MaxNodes == 2     \* getNNodes() ranges over 1..MaxNodes

VARIABLES
    argv,           \* number of positional command-line arguments
    file,           \* the instance file: [exists, lines]
    pc,             \* position of the program
    with_symmetry,  \* the flag of the current call of solve_bin_packing
    inst,           \* what parse_instance returned to the current call
    model,          \* the model object of the current call
    status,         \* model.getStatus() of the current call
    sol,            \* the solver's assignment [x, y] of the current call
    nodes,          \* model.getNNodes() of the current call
    results,        \* main's locals: what each call returned
    out,            \* what has been printed, in order
    nmodels,        \* number of Model(...) objects created so far
    solves          \* number of model.optimize() calls so far, per flag

vars == <<argv, file, pc, with_symmetry, inst, model, status, sol, nodes,
          results, out, nmodels, solves>>

\* ---- the text of an instance file ----
\* The numbers explored are naturals: capacity at least 1, sizes from 0 up.
\* A line is the sequence of its whitespace-separated tokens; a token either
\* is the decimal text of an integer (int) or is not (free text).
IntTok(v) == [int |-> TRUE, val |-> v]
TextTok == [int |-> FALSE, val |-> 0]

NameLine == <<TextTok>>

\* mutant: a line missing at the end of the file reads as the number 0
ReadLine_Pad(lines, k) == IF k <= Len(lines) THEN lines[k] ELSE <<IntTok(0)>>

\* file.readline().strip().split(): the tokens of line k, none at end of file
ReadLine(lines, k) == IF k <= Len(lines) THEN lines[k] ELSE <<>>

\* int(s) on the text of a whole line succeeds iff the line is one int token
IntLineOk(line) == Len(line) = 1 /\ line[1].int

NoInstance == [ok |-> FALSE, name |-> <<>>, capacity |-> 0,
               number_of_objects |-> 0, sizes |-> <<>>]

parse_instance(f) ==
    IF ~f.exists THEN NoInstance
    ELSE LET name == ReadLine(f.lines, 1)
             second == ReadLine(f.lines, 2)
         IN  IF ~(Len(second) = 3 /\ \A t \in 1..3 : second[t].int)
             THEN NoInstance
             ELSE LET n == second[2].val
                  IN  IF \E k \in 1..n : ~IntLineOk(ReadLine(f.lines, 2 + k))
                      THEN NoInstance
                      ELSE [ok |-> TRUE, name |-> name,
                            capacity |-> second[1].val,
                            number_of_objects |-> n,
                            sizes |-> [i \in 0..(n - 1) |->
                                         ReadLine(f.lines, 3 + i)[1].val]]

\* ---- the model built by solve_bin_packing ----
Items(n) == 0..(n - 1)
Bins(n) == 0..(n - 1)

Cons(kind, i, j) == [kind |-> kind, i |-> i, j |-> j]

\* for i in range(n): addCons(quicksum(x[i,j] for j) == 1, "Object_i_placement")
PlacementCons(n) == {Cons("Object_placement", i, 0) : i \in Items(n)}

\* for j in range(n): addCons(quicksum(sizes[i]*x[i,j] for i) <= capacity*y[j])
CapacityCons(n) == {Cons("Box_capacity", 0, j) : j \in Bins(n)}

\* for i in range(n): for j in range(n): addCons(x[i,j] <= y[j])
LinkingCons(n) == {Cons("Linking", i, j) : i \in Items(n), j \in Bins(n)}

\* mutant: the loop stops one bin early, range(n - 2)
LexicographicCons_Short(n, sym) ==
    IF sym THEN {Cons("Lexicographic", 0, j) : j \in 0..(n - 3)} ELSE {}

\* if with_symmetry: for j in range(n - 1): addCons(y[j] >= y[j+1])
LexicographicCons(n, sym) ==
    IF sym THEN {Cons("Lexicographic", 0, j) : j \in 0..(n - 2)} ELSE {}

NoModel == [created |-> FALSE, n |-> 0, capacity |-> 0, sizes |-> <<>>,
            cons |-> {}]

BuiltModel(in, sym) ==
    [created |-> TRUE,
     n |-> in.number_of_objects,
     capacity |-> in.capacity,
     sizes |-> in.sizes,
     cons |-> PlacementCons(in.number_of_objects)
              \cup CapacityCons(in.number_of_objects)
              \cup LinkingCons(in.number_of_objects)
              \cup LexicographicCons(in.number_of_objects, sym)]

\* ---- what the constraints mean (the solver's side) ----
RECURSIVE quicksum(_, _)
\* quicksum(f[k] for k in range(n))
quicksum(f, n) == IF n <= 0 THEN 0 ELSE f[n - 1] + quicksum(f, n - 1)

PlacementHolds(row, n) == quicksum(row, n) = 1

\* mutant: the sizes are left out of the sum, which then counts the items
CapacityHolds_NoSizes(m, x, y, j) ==
    quicksum([i \in Items(m.n) |-> x[i][j]], m.n) <= m.capacity * y[j]

\* mutant: < for <=, a full bin is rejected
CapacityHolds_Strict(m, x, y, j) ==
    quicksum([i \in Items(m.n) |-> m.sizes[i] * x[i][j]], m.n)
        < m.capacity * y[j]

\* mutant: the right-hand side is capacity, not capacity * y[j]
CapacityHolds_NoY(m, x, y, j) ==
    quicksum([i \in Items(m.n) |-> m.sizes[i] * x[i][j]], m.n) <= m.capacity

CapacityHolds(m, x, y, j) ==
    quicksum([i \in Items(m.n) |-> m.sizes[i] * x[i][j]], m.n)
        <= m.capacity * y[j]

LinkingHolds(x, y, i, j) == x[i][j] <= y[j]

\* mutant: > for >=
LexicographicHolds_Strict(y, j) == y[j] > y[j + 1]

\* mutant: the order reversed, <= for >=
LexicographicHolds_Reversed(y, j) == y[j] <= y[j + 1]

LexicographicHolds(y, j) == y[j] >= y[j + 1]

Holds(c, m, x, y) ==
    CASE c.kind = "Object_placement" -> PlacementHolds(x[c.i], m.n)
      [] c.kind = "Box_capacity"     -> CapacityHolds(m, x, y, c.j)
      [] c.kind = "Linking"          -> LinkingHolds(x, y, c.i, c.j)
      [] c.kind = "Lexicographic"    -> LexicographicHolds(y, c.j)

\* The rows x[i] worth trying: when every item has its placement constraint,
\* only the rows that satisfy it (the other rows fail Holds below anyway).
RowBase(n, cons) ==
    IF \A i \in Items(n) : Cons("Object_placement", i, 0) \in cons
    THEN {row \in [Bins(n) -> {0, 1}] : PlacementHolds(row, n)}
    ELSE [Bins(n) -> {0, 1}]

\* every boolean assignment [x, y] that satisfies every constraint in cons
Satisfying(m, cons) ==
    {a \in [x : [Items(m.n) -> RowBase(m.n, cons)], y : [Bins(m.n) -> {0, 1}]] :
        \A c \in cons : Holds(c, m, a.x, a.y)}

Solutions(m) == Satisfying(m, m.cons)

\* setObjective(quicksum(y[j] for j in range(n)), "minimize")
Objective(m, a) == quicksum(a.y, m.n)

\* mutant: "maximize" for "minimize"
MinObjective_Max(m, S) ==
    LET objs == {Objective(m, a) : a \in S}
    IN  CHOOSE k \in objs : \A l \in objs : k >= l

MinObjective(m, S) ==
    LET objs == {Objective(m, a) : a \in S}
    IN  CHOOSE k \in objs : \A l \in objs : k <= l

OptimalSolutions(m) ==
    LET S == Solutions(m)
    IN  IF S = {} THEN {}
        ELSE LET best == MinObjective(m, S)
             IN  {a \in S : Objective(m, a) = best}

NoSol == [x |-> <<>>, y |-> <<>>]

\* ---- the inputs explored ----
SizeLists == UNION {[1..n -> 0..MaxSize] : n \in 0..MaxItems}

\* the text of a well-formed instance file (third number of line 2 unused)
Render(capacity, sizes) ==
    <<NameLine, <<IntTok(capacity), IntTok(Len(sizes)), IntTok(0)>>>>
        \o [k \in 1..Len(sizes) |-> <<IntTok(sizes[k])>>]

\* the end-to-end scenario: capacity 10, items 6, 5, 4, 3
ScenarioLines == Render(10, <<6, 5, 4, 3>>)

WellFormedLines ==
    {Render(c, s) : c \in 1..MaxCap, s \in SizeLists} \cup {ScenarioLines}

\* a file cut short after any number of lines
Truncated(lines) == {SubSeq(lines, 1, k) : k \in 0..(Len(lines) - 1)}

\* a line made blank, with a token that is no integer, with a token missing,
\* or with one token too many
BadLines(line) ==
    {<<>>, SubSeq(line, 1, Len(line) - 1), Append(line, IntTok(0))}
        \cup {[line EXCEPT ![t] = TextTok] : t \in 1..Len(line)}

Damaged(lines) ==
    UNION {{[lines EXCEPT ![k] = b] : b \in BadLines(lines[k])} :
             k \in 2..Len(lines)}

\* changes the parser does not mind: lines after the last size, another name
Harmless(lines) ==
    {Append(lines, <<IntTok(1)>>), [lines EXCEPT ![1] = <<>>],
     [lines EXCEPT ![1] = <<TextTok, IntTok(1)>>]}

InputLines ==
    WellFormedLines
        \cup UNION {Truncated(l) \cup Damaged(l) \cup Harmless(l) :
                      l \in WellFormedLines}

MissingFile == [exists |-> FALSE, lines |-> <<>>]

InputFiles == {MissingFile} \cup {[exists |-> TRUE, lines |-> l] : l \in InputLines}

\* ---- what is printed ----
\* One event per printed line.  The elapsed wall-clock time is not modelled as
\* a value (val 0 on its lines); the objective is an exact integer, so
\* int(model.getObjVal()) is the number of used bins.
Event(kind, name, val) == [kind |-> kind, name |-> name, val |-> val]

Banner(sym) ==
    Event(IF sym THEN "banner_with" ELSE "banner_without", <<>>, 0)

\* mutant: the node count is printed only for an optimal status
ReportLines_NoNodes(st, in, m, a, n) ==
    IF st = "optimal"
    THEN <<Event("optimal", in.name, Objective(m, a)),
           Event("time", <<>>, 0), Event("nodes", <<>>, n)>>
    ELSE <<Event("no_optimal", <<>>, 0), Event("time", <<>>, 0)>>

\* the three lines printed after optimize() returns
ReportLines(st, in, m, a, n) ==
    IF st = "optimal"
    THEN <<Event("optimal", in.name, Objective(m, a)),
           Event("time", <<>>, 0), Event("nodes", <<>>, n)>>
    ELSE <<Event("no_optimal", <<>>, 0),
           Event("time", <<>>, 0), Event("nodes", <<>>, n)>>

ComparisonLines(res) ==
    <<Event("comparison", <<>>, 0),
      Event("cmp_time_without", <<>>, 0),
      Event("cmp_nodes_without", <<>>, res[1].nodes),
      Event("cmp_time_with", <<>>, 0),
      Event("cmp_nodes_with", <<>>, res[2].nodes)>>

\* mutant: the two calls in the other order
MainCalls_Swapped == <<TRUE, FALSE>>

\* the calls of solve_bin_packing in main, in order: the flag of each
MainCalls == <<FALSE, TRUE>>

\* ---- the program ----
Init ==
    /\ argv \in 0..2
    /\ file \in InputFiles
    /\ pc = "parse_args"
    /\ with_symmetry = FALSE
    /\ inst = NoInstance
    /\ model = NoModel
    /\ status = "none"
    /\ sol = NoSol
    /\ nodes = 0
    /\ results = <<>>
    /\ out = <<>>
    /\ nmodels = 0
    /\ solves = [b \in BOOLEAN |-> 0]

\* parser.parse_args(): exactly one positional argument, else usage and exit
ParseArgs ==
    /\ pc = "parse_args"
    /\ IF argv = 1
       THEN pc' = "call" /\ out' = out
       ELSE pc' = "usage_exit" /\ out' = Append(out, Event("usage", <<>>, 0))
    /\ UNCHANGED <<argv, file, with_symmetry, inst, model, status, sol, nodes,
                   results, nmodels, solves>>

\* main prints the banner and calls solve_bin_packing with the next flag
CallSolve ==
    /\ pc = "call"
    /\ with_symmetry' = MainCalls[Len(results) + 1]
    /\ out' = Append(out, Banner(with_symmetry'))
    /\ pc' = "parse"
    /\ UNCHANGED <<argv, file, inst, model, status, sol, nodes, results,
                   nmodels, solves>>

\* parse_instance returns the instance, or raises and the program ends
ParseInstance ==
    /\ pc = "parse"
    /\ inst' = parse_instance(file)
    /\ pc' = IF inst'.ok THEN "build" ELSE "error_exit"
    /\ UNCHANGED <<argv, file, with_symmetry, model, status, sol, nodes,
                   results, out, nmodels, solves>>

\* Model(...), the variables, the objective and the constraints
BuildModel ==
    /\ pc = "build"
    /\ model' = BuiltModel(inst, with_symmetry)
    /\ nmodels' = nmodels + 1
    /\ pc' = "optimize"
    /\ UNCHANGED <<argv, file, with_symmetry, inst, status, sol, nodes,
                   results, out, solves>>

\* model.optimize(), then getNNodes() and getStatus()
Optimize ==
    /\ pc = "optimize"
    /\ solves' = [solves EXCEPT ![with_symmetry] = @ + 1]
    /\ nodes' \in 1..MaxNodes
    /\ LET opt == OptimalSolutions(model)
       IN  IF opt = {}
           THEN status' = "infeasible" /\ sol' = NoSol
           ELSE status' = "optimal" /\ sol' \in opt
    /\ pc' = "report"
    /\ UNCHANGED <<argv, file, with_symmetry, inst, model, results, out,
                   nmodels>>

\* the prints after the solve
Report ==
    /\ pc = "report"
    /\ out' = out \o ReportLines(status, inst, model, sol, nodes)
    /\ pc' = "return"
    /\ UNCHANGED <<argv, file, with_symmetry, inst, model, status, sol, nodes,
                   results, nmodels, solves>>

\* return solving_time, nodes: main keeps them, the call's locals are gone
Return ==
    /\ pc = "return"
    /\ results' = Append(results, [nodes |-> nodes])
    /\ pc' = IF Len(results') < Len(MainCalls) THEN "call" ELSE "compare"
    /\ inst' = NoInstance
    /\ model' = NoModel
    /\ status' = "none"
    /\ sol' = NoSol
    /\ nodes' = 0
    /\ UNCHANGED <<argv, file, with_symmetry, out, nmodels, solves>>

\* main's comparison summary
Compare ==
    /\ pc = "compare"
    /\ out' = out \o ComparisonLines(results)
    /\ pc' = "done"
    /\ UNCHANGED <<argv, file, with_symmetry, inst, model, status, sol, nodes,
                   results, nmodels, solves>>

Next ==
    \/ ParseArgs
    \/ CallSolve
    \/ ParseInstance
    \/ BuildModel
    \/ Optimize
    \/ Report
    \/ Return
    \/ Compare

Spec == Init /\ [][Next]_vars

\* ---- vocabulary of the properties ----
RECURSIVE SetSum(_, _)
\* the sum of f over the set S
SetSum(S, f) ==
    IF S = {} THEN 0
    ELSE LET e == CHOOSE e \in S : TRUE IN f[e] + SetSum(S \ {e}, f)

N == inst.number_of_objects

\* the bins an assignment puts item i in, the items it puts in bin j
BinsOf(a, i) == {j \in Bins(N) : a.x[i][j] = 1}
ItemsIn(a, j) == {i \in Items(N) : a.x[i][j] = 1}
Load(a, j) == SetSum(ItemsIn(a, j), inst.sizes)
UsedBins(a) == {j \in Bins(N) : a.y[j] = 1}

\* a partition of the items into bins that respects the capacity
IsPacking(a) ==
    /\ \A i \in Items(N) : Cardinality(BinsOf(a, i)) = 1
    /\ \A j \in Bins(N) : Load(a, j) <= inst.capacity

Solved == pc \in {"report", "return"}
Returned == pc = "return" /\ status = "optimal"
Oversized == \E i \in Items(N) : inst.sizes[i] > inst.capacity

\* the line printed right after the banner of the call with flag sym
ReportOf(sym) ==
    LET k == CHOOSE k \in 1..Len(out) : out[k] = Banner(sym) IN out[k + 1]

\* C1: every assignment satisfying the constraints of the built model, and
\* so every returned optimal assignment, puts each item in exactly one bin
\* and loads no bin beyond the capacity, with and without symmetry breaking.
C1_Feasibility ==
    /\ pc = "optimize" => \A a \in Solutions(model) : IsPacking(a)
    /\ Solved /\ status = "optimal" => IsPacking(sol)

C1_Witness ==
    /\ Returned /\ with_symmetry
    /\ \E j \in Bins(N) : Cardinality(ItemsIn(sol, j)) >= 2
    /\ Cardinality(UsedBins(sol)) >= 2

\* C2: main reports the same outcome for both models of an instance: both
\* optimal with the same number of boxes, or both without optimal solution.
C2_SameOptimum ==
    Len(results) = Len(MainCalls) =>
        /\ ReportOf(TRUE).kind = ReportOf(FALSE).kind
        /\ ReportOf(TRUE).val = ReportOf(FALSE).val

C2_Witness ==
    /\ pc = "done"
    /\ ReportOf(TRUE).kind = "optimal"
    /\ ReportOf(TRUE).val = 2
    /\ ReportOf(FALSE).val = 2

\* the items can be split into k groups, each of total size within capacity
Packable(k) ==
    \E g \in [Items(N) -> 1..k] :
        \A b \in 1..k : SetSum({i \in Items(N) : g[i] = b}, inst.sizes)
                            <= inst.capacity

\* the bin-packing optimum: the least such k
BinPackingOptimum ==
    CHOOSE k \in 0..N : Packable(k) /\ \A l \in 0..(k - 1) : ~Packable(l)

\* C3: when every size is at most the capacity, the solve ends optimal and
\* its objective, the number printed, is the bin-packing optimum; it is 2 on
\* capacity 10 with sizes 6, 5, 4, 3, and 0 with an empty assignment when
\* there are no items.
C3_TrueOptimum ==
    pc = "return" /\ ~Oversized =>
        /\ status = "optimal"
        /\ Objective(model, sol) = BinPackingOptimum
        /\ ReportOf(with_symmetry) = Event("optimal", inst.name, BinPackingOptimum)
        /\ file.lines = ScenarioLines => ReportOf(with_symmetry).val = 2
        /\ N = 0 => ReportOf(with_symmetry).val = 0 /\ sol = NoSol

C3_Witness ==
    /\ Returned /\ with_symmetry
    /\ file.lines = ScenarioLines
    /\ IsPacking(sol)
    /\ Cardinality(UsedBins(sol)) = 2

\* C4: with symmetry breaking, in every assignment satisfying the model (so
\* in the returned one) the used bins are a prefix of the bin indices: no
\* used bin has an unused bin before it.
C4_UsedPrefix ==
    /\ pc = "optimize" /\ with_symmetry =>
           \A a \in Solutions(model) :
               \A j, k \in Bins(N) : j < k /\ a.y[k] = 1 => a.y[j] = 1
    /\ Solved /\ with_symmetry /\ status = "optimal" =>
           \A j \in 0..(N - 2) : sol.y[j] >= sol.y[j + 1]

C4_Witness ==
    /\ Returned /\ with_symmetry
    /\ N >= 3
    /\ sol.y[0] = 1 /\ sol.y[1] = 1 /\ sol.y[2] = 0

\* C5 as stated: with symmetry breaking the returned solution has bin loads
\* in non-increasing order.
C5_LoadOrder ==
    Returned /\ with_symmetry =>
        \A j \in 0..(N - 2) : Load(sol, j) >= Load(sol, j + 1)

\* C5 amended: with symmetry breaking only the lexicographic constraints are
\* added; in the returned optimal solution no bin holding items follows a bin
\* holding none.
C5_OccupiedPrefix ==
    Returned /\ with_symmetry =>
        \A j \in 0..(N - 2) : ItemsIn(sol, j + 1) # {} => ItemsIn(sol, j) # {}

C5_Witness ==
    /\ Returned /\ with_symmetry
    /\ \E j \in 0..(N - 2) :
           /\ ItemsIn(sol, j) # {}
           /\ Load(sol, j) < Load(sol, j + 1)

\* C6: the solve without symmetry breaking has returned before the solve
\* with it starts, no variant is solved twice (also when the status is not
\* optimal), a completed run has solved each variant once, the comparison is
\* printed only after both calls returned, and with a wrong argument count
\* only the usage is printed and no model is built or solved.
C6_MainOrder ==
    /\ \A b \in BOOLEAN : solves[b] <= 1
    /\ (solves[TRUE] >= 1 \/ (with_symmetry /\ pc # "parse_args")) =>
           solves[FALSE] = 1 /\ Len(results) >= 1
    /\ (\E k \in 1..Len(out) : out[k].kind = "comparison") =>
           Len(results) = 2 /\ solves[FALSE] = 1 /\ solves[TRUE] = 1
    /\ pc = "done" =>
           /\ solves[FALSE] = 1 /\ solves[TRUE] = 1 /\ nmodels = 2
           /\ \E k \in 1..Len(out) : out[k].kind = "comparison"
    /\ argv # 1 =>
           /\ nmodels = 0 /\ solves[FALSE] = 0 /\ solves[TRUE] = 0
           /\ pc \in {"parse_args", "usage_exit"}
           /\ pc = "usage_exit" => out = <<Event("usage", <<>>, 0)>>

C6_Witness ==
    /\ pc = "done"
    /\ ReportOf(FALSE).kind = "no_optimal"
    /\ ReportOf(TRUE).kind = "no_optimal"
    /\ solves[FALSE] = 1 /\ solves[TRUE] = 1

\* what the input-format description calls a malformed or missing file: no
\* file, a second line that is not exactly three integers, fewer than
\* 2 + itemCount lines, or a size line with a token that is no integer
SecondLineOk(lines) ==
    /\ Len(lines) >= 2
    /\ Len(lines[2]) = 3
    /\ \A t \in 1..3 : lines[2][t].int

Malformed(f) ==
    \/ ~f.exists
    \/ ~SecondLineOk(f.lines)
    \/ /\ SecondLineOk(f.lines)
       /\ \/ Len(f.lines) < 2 + f.lines[2][2].val
          \/ \E k \in 3..(2 + f.lines[2][2].val) :
                 /\ k <= Len(f.lines)
                 /\ \E t \in 1..Len(f.lines[k]) : ~f.lines[k][t].int

Reports ==
    {"optimal", "no_optimal", "time", "nodes", "comparison",
     "cmp_time_without", "cmp_nodes_without", "cmp_time_with", "cmp_nodes_with"}

\* C7: on a missing or malformed file parse_instance raises and the error
\* ends the program: no model is created, nothing is solved, no call returns
\* and no report or comparison is printed.
C7_ParseErrorPropagates ==
    Malformed(file) =>
        /\ pc \in {"parse_args", "usage_exit", "call", "parse", "error_exit"}
        /\ nmodels = 0 /\ solves[FALSE] = 0 /\ solves[TRUE] = 0
        /\ results = <<>>
        /\ ~inst.ok
        /\ \A k \in 1..Len(out) : out[k].kind \notin Reports

C7_Witness ==
    /\ pc = "error_exit"
    /\ file.exists
    /\ SecondLineOk(file.lines)
    /\ Len(file.lines) = 1 + file.lines[2][2].val
    /\ \A k \in 3..Len(file.lines) : IntLineOk(file.lines[k])

CallOutput ==
    LET k == CHOOSE k \in 1..Len(out) : out[k] = Banner(with_symmetry)
    IN  SubSeq(out, k + 1, Len(out))

C9_InfeasibleIffOversized ==
    /\ pc = "optimize" => (Solutions(model) = {} <=> Oversized)
    /\ Solved => (status # "optimal" <=> Oversized)
    /\ pc = "return" /\ Oversized =>
           inst.ok /\ ReportOf(with_symmetry) = Event("no_optimal", <<>>, 0)

C9_Witness ==
    /\ pc = "return" /\ with_symmetry
    /\ Oversized
    /\ N >= 2
    /\ status = "infeasible"

\* C10: when every size and the capacity are positive, the assignments that
\* satisfy the model without its linking constraints are exactly those that
\* satisfy the whole model, so the optimum is the same.
C10_LinkingRedundant ==
    pc = "optimize" /\ inst.capacity > 0
                    /\ (\A i \in Items(N) : inst.sizes[i] > 0) =>
        Satisfying(model, model.cons \ LinkingCons(N)) = Solutions(model)

C10_Witness ==
    /\ pc = "optimize"
    /\ N >= 2
    /\ \A i \in Items(N) : inst.sizes[i] > 0
    /\ Cardinality(Solutions(model)) >= 2
    /\ model.cons \ LinkingCons(N) # model.cons

====
